---- MODULE Spec2Model ----
(***************************************************************************)
(* Model of the FDA 510(k) crawler, BioLLM/fda_data_parsing/parsing.py.    *)
(* The state is the state of crawl_fda_510k (seen, page, counters, the     *)
(* rows of the page being walked, the record in hand), the browser's       *)
(* listing position, and the output file on disk.  The portal (the listing *)
(* pages, the detail pages) and the outcomes of browser calls are the      *)
(* environment: the site is drawn in Init, outcomes are drawn per step.    *)
(* Several runs of the program follow each other on the same output file.  *)
(***************************************************************************)
EXTENDS Integers, Sequences, FiniteSets, TLC

\* ------------------------------------------------------------------ bounds
MaxRuns == 2            \* runs of the program on the same output file
MaxSitePages == 3       \* listing pages the portal serves
MaxRowsPerPage == 2     \* rows on one listing page
MaxLines == 2           \* lines the output file may grow to
MaxPagesArg == 1        \* --max-pages is drawn from 0..MaxPagesArg

\* ------------------------------------------------------- program constants
STEP == 10              \* next_pagenum = current_pagenum + 10
EMPTY_LIMIT == 3        \* consecutive_empty_pages >= 3
FIRST_PAGENUM == 1      \* params.get("PAGENUM", ["1"])

NoneVal == "None"

\* --------------------------------------------------------------- the portal
\* A listing row is known by the text of its first column (td[1]/a) and by the
\* identifier its detail page body carries (NoneVal: the body has no K-number).
\*   rA: the listing shows the K-number, the detail page confirms it
\*   rB: the listing shows something else (the device name), the detail page
\*       carries the K-number
\*   rC: the listing shows a K-number, the detail page carries none
Rows == {"rA", "rB", "rC"}

ListingText(r) ==
  CASE r = "rA" -> "K000001"
    [] r = "rB" -> "Device B"
    [] r = "rC" -> "K000003"

DetailId(r) ==
  CASE r = "rA" -> "K000001"
    [] r = "rB" -> "K000002"
    [] r = "rC" -> NoneVal

\* sequences over S of length <= n
RECURSIVE SeqsUpTo(_, _)
SeqsUpTo(S, n) ==
  IF n = 0 THEN {<<>>}
  ELSE LET shorter == SeqsUpTo(S, n - 1)
       IN shorter \cup {Append(s, x) : s \in {t \in shorter : Len(t) = n - 1},
                                        x \in S}

NoRepeat(s) == \A i, j \in DOMAIN s : i # j => s[i] # s[j]

\* the search results: each row at most once
ResultLists == {s \in SeqsUpTo(Rows, Cardinality(Rows)) : NoRepeat(s)}

Min(a, b) == IF a < b THEN a ELSE b

\* the result list served in pages of ps rows: page i holds results (i-1)*ps+1 .. i*ps
PagesOf(results, ps) ==
  [i \in 1..MaxSitePages |->
     SubSeq(results, (i - 1) * ps + 1, Min(i * ps, Len(results)))]

\* the portal serves at most MaxSitePages pages of a result list
Sites == {PagesOf(results, ps) : results \in ResultLists, ps \in 1..MaxRowsPerPage}

VARIABLES
  site,                      \* the portal's listing, page index -> rows
  run,                       \* number of the current run of the program
  pc,                        \* where crawl_fda_510k stands
  resume, max_pages,         \* arguments of the run
  seen, page, total_written, consecutive_empty_pages,   \* locals of crawl_fda_510k
  items, idx,                \* rows of the page being walked, position in detail_targets
  enriched,                  \* the record returned by open_in_new_tab_and_process
  pagenum,                   \* PAGENUM of driver.current_url (0: the URL has none)
  out_file, file_exists,     \* the output file on disk
  buffered,                  \* the record written but not yet on disk
  last_scan,                 \* offset shown at the previous collect_page_rows of the run (0: none)
  opened,                    \* the row whose detail link the last step opened (NoneVal: none)
  completed,                 \* k_numbers of the records that reached the disk whole
  tab,                       \* the browser's windows while detail links are opened, one call at a time
  det,                       \* one detail page being processed: its links, the fetch, the identifier, the record
  nav                        \* one part of the crawl walked on its own: try_next_page, its link and
                             \* its URL, the seen set, the rows of a page, the driver

vars == <<site, run, pc, resume, max_pages, seen, page, total_written,
          consecutive_empty_pages, items, idx, enriched, pagenum, out_file,
          file_exists, buffered, last_scan, opened, completed, tab, det, nav>>

\* page is compared with max_pages only; above MaxPagesArg + 1 all values behave alike
PageCap == MaxPagesArg + 2
Bump(p) == IF p < PageCap THEN p + 1 ELSE p

\* ------------------------------------------------------------ the listing
\* offset the listing is shown at: int(params.get("PAGENUM", ["1"])[0])
CurrentPagenum(pn) == IF pn = 0 THEN FIRST_PAGENUM ELSE pn

\* rows matched by //table//tr[td/a[contains(@href,'pmn.cfm?ID=')]] at an offset
safe_find_all_results_rows(s, pn) ==
  LET off == CurrentPagenum(pn)
      i == (off - 1) \div STEP + 1
  IN IF (off - 1) % STEP = 0 /\ i \in 1..MaxSitePages THEN s[i] ELSE <<>>

first_row_signature(s, pn) ==
  LET rows == safe_find_all_results_rows(s, pn)
  IN IF rows = <<>> THEN "" ELSE rows[1]

count_total_results(s, pn) == Len(safe_find_all_results_rows(s, pn))

\* the rows whose mask bit is set, in document order
RECURSIVE Parsed(_, _, _)
Parsed(rows, mask, i) ==
  IF i > Len(rows) THEN <<>>
  ELSE IF mask[i] THEN <<rows[i]>> \o Parsed(rows, mask, i + 1)
       ELSE Parsed(rows, mask, i + 1)

\* collect_page_rows: one item per row whose cells parse (mask), in document order
collect_page_rows(s, pn, mask) == Parsed(safe_find_all_results_rows(s, pn), mask, 1)

Masks(n) == [1..n -> BOOLEAN]

\* ------------------------------------------------------------- pagination
\* What the browser meets during one call of try_next_page:
\*   arrow, arrowTo : an <a> with text '>' exists, and where it leads
\*   link, linkTo   : an <a> whose href contains 'PAGENUM=<next>' exists, and its offset
\*   nav1..nav3     : whether the navigation of each strategy returns or raises
NavOutcomes == {"ok", "raises"}

PageEnvs(pn) ==
  LET next_pagenum == CurrentPagenum(pn) + STEP
  IN [arrow : BOOLEAN, arrowTo : {next_pagenum, CurrentPagenum(pn)},
      link : BOOLEAN, linkTo : {next_pagenum},
      nav1 : NavOutcomes, nav2 : NavOutcomes, nav3 : NavOutcomes]

\* the three strategies of try_next_page, in the order the code tries them;
\* avail: the element was found and the navigation did not raise
Strategies(pn, e) ==
  LET next_pagenum == CurrentPagenum(pn) + STEP
  IN << [name |-> "arrow", avail |-> e.arrow /\ e.nav1 = "ok", target |-> e.arrowTo],
        [name |-> "link",  avail |-> e.link /\ e.nav2 = "ok",  target |-> e.linkTo],
        [name |-> "url",   avail |-> e.nav3 = "ok",            target |-> next_pagenum] >>

\* One strategy after the other: a strategy that is not available is passed over;
\* one that navigated returns (result_count > 0) as soon as the first-row
\* signature differs from before_sig, and falls through to the next otherwise.
RECURSIVE TryFrom(_, _, _, _, _)
TryFrom(s, before_sig, cur, strategies, i) ==
  IF i > Len(strategies) THEN [advanced |-> FALSE, pagenum |-> cur]
  ELSE IF ~strategies[i].avail THEN TryFrom(s, before_sig, cur, strategies, i + 1)
  ELSE LET at == strategies[i].target
       IN IF first_row_signature(s, at) # before_sig
          THEN [advanced |-> count_total_results(s, at) > 0, pagenum |-> at]
          ELSE TryFrom(s, before_sig, at, strategies, i + 1)

try_next_page(s, pn, e) ==
  TryFrom(s, first_row_signature(s, pn), pn, Strategies(pn, e), 1)

\* ------------------------------------------------------------ the records
\* infer_k_number_from_page: the first K-number of the detail page body, or None
infer_k_number_from_page(r) == DetailId(r)

\* process_detail_page: the listing's fields, k_number overwritten when the
\* detail page carries one
process_detail_page(r) ==
  LET knum == infer_k_number_from_page(r)
  IN [k_number |-> IF knum # NoneVal THEN knum ELSE ListingText(r), row |-> r]

NoRecord == [k_number |-> NoneVal, row |-> NoneVal]

\* ---------------------------------------------------------- the output file
\* A line of the file is a whole record ("rec"), the beginning of a record
\* without its newline ("open"), or text that does not parse ("junk").
Line(rec, kind) == [kind |-> kind, k_number |-> rec.k_number]

\* the file opened afresh at every write
AppendRecord_Truncating(f, rec) == <<Line(rec, "rec")>>

\* json.dumps(enriched) + "\n" appended to what is on disk: after an unterminated
\* line the record runs on in the same line, which then parses as nothing
AppendRecord(f, rec) ==
  IF f # <<>> /\ f[Len(f)].kind = "open"
  THEN [f EXCEPT ![Len(f)] = [kind |-> "junk", k_number |-> NoneVal]]
  ELSE Append(f, Line(rec, "rec"))

\* a write cut short: only the beginning of the line is on disk
AppendPartial(f, rec) ==
  IF f # <<>> /\ f[Len(f)].kind = "open" THEN f
  ELSE Append(f, Line(rec, "open"))

\* the seen set rebuilt from the file, lines that do not parse skipped
RebuildSeen(f) == {f[i].k_number : i \in {j \in DOMAIN f : f[j].kind = "rec"}}

RunOver == {"Idle", "Done", "Failed", "Raised", "Interrupted"}
InRun == {"Searching", "ScanningPage", "Paginating", "ProcessingRow", "Writing", "Flushing"}

\* a part of the model that is not being walked
Off == [pc |-> "off"]

TypeOK ==
  /\ site \in Sites
  /\ run \in 0..MaxRuns
  /\ pc \in RunOver \cup InRun
  /\ resume \in BOOLEAN
  /\ max_pages \in 0..MaxPagesArg
  /\ page \in 0..PageCap
  /\ consecutive_empty_pages \in 0..EMPTY_LIMIT
  /\ idx \in 1..(MaxRowsPerPage + 1)
  /\ Len(out_file) <= MaxLines
  /\ buffered \in BOOLEAN
  /\ file_exists \in BOOLEAN

Init ==
  /\ site \in Sites
  /\ run = 0
  /\ pc = "Idle"
  /\ resume = FALSE
  /\ max_pages = 0
  /\ seen = {}
  /\ page = 0
  /\ total_written = 0
  /\ consecutive_empty_pages = 0
  /\ items = <<>>
  /\ idx = 1
  /\ enriched = NoRecord
  /\ pagenum = 0
  /\ out_file = <<>>
  /\ file_exists = FALSE
  /\ buffered = FALSE
  /\ last_scan = 0
  /\ opened = NoneVal
  /\ completed = {}
  /\ tab = Off
  /\ det = Off
  /\ nav = Off

\* crawl_fda_510k is called: the seen set is rebuilt (resume) and the driver set up
StartRun(res, mp) ==
  /\ pc \in RunOver
  /\ run < MaxRuns
  /\ run' = run + 1
  /\ resume' = res
  /\ max_pages' = mp
  /\ seen' = IF res /\ file_exists THEN RebuildSeen(out_file) ELSE {}
  /\ total_written' = 0
  /\ consecutive_empty_pages' = 0
  /\ page' = 0
  /\ items' = <<>>
  /\ idx' = 1
  /\ enriched' = NoRecord
  /\ pagenum' = 0
  /\ buffered' = FALSE
  /\ last_scan' = 0
  /\ pc' = "Searching"
  /\ opened' = NoneVal
  /\ UNCHANGED <<site, out_file, file_exists, completed>>
  /\ UNCHANGED <<tab, det, nav>>

\* line 665 stands after the search: open(out_path, "a") makes the file
\* when it is missing, and is reached only when the set-up went through
FileAfterSetup_OpenedFirst(ok, exists) == TRUE

FileAfterSetup(ok, exists) == ok \/ exists

\* the search is submitted and the output file opened for appending; a search
\* box that does not appear raises out of crawl_fda_510k
Search(ok) ==
  /\ pc = "Searching"
  /\ IF ok
     THEN /\ pc' = "ScanningPage"
          /\ page' = 1
     ELSE /\ pc' = "Failed"
          /\ UNCHANGED page
  /\ file_exists' = FileAfterSetup(ok, file_exists)
  /\ opened' = NoneVal
  /\ UNCHANGED <<site, run, resume, max_pages, seen, total_written,
                 consecutive_empty_pages, items, idx, enriched, pagenum, out_file,
                 buffered, last_scan, completed>>
  /\ UNCHANGED <<tab, det, nav>>

\* the limit tested one page late
EmptyLimitReached_Late(c) == c > EMPTY_LIMIT

\* the limit of consecutive empty pages
EmptyLimitReached(c) == c >= EMPTY_LIMIT

\* line 687: the counter after a scan that returned rows
AfterRows_Kept(c) == c

AfterRows(c) == 0

\* Top of the loop: collect_page_rows; an empty page counts up and ends the
\* crawl at the limit, a page with rows resets the counter.  The wait for the
\* table inside collect_page_rows is not guarded: its timeout leaves the crawl.
ScanPage(outcome, mask) ==
  /\ pc = "ScanningPage"
  /\ IF outcome = "timeout"
     THEN /\ pc' = "Raised"
          /\ UNCHANGED <<items, idx, consecutive_empty_pages, last_scan>>
     ELSE LET found == collect_page_rows(site, pagenum, mask)
          IN /\ items' = found
             /\ idx' = 1
             /\ last_scan' = CurrentPagenum(pagenum)
             /\ IF Len(found) = 0
                THEN /\ consecutive_empty_pages' = consecutive_empty_pages + 1
                     /\ pc' = IF EmptyLimitReached(consecutive_empty_pages + 1)
                              THEN "Done" ELSE "Paginating"
                ELSE /\ consecutive_empty_pages' = AfterRows(consecutive_empty_pages)
                     /\ pc' = "ProcessingRow"
  /\ opened' = NoneVal
  /\ UNCHANGED <<site, run, resume, max_pages, seen, page, total_written, enriched,
                 pagenum, out_file, file_exists, buffered, completed>>
  /\ UNCHANGED <<tab, det, nav>>

\* An empty page: try_next_page, then the next scan or the end of the crawl.
\* The first calls of try_next_page on the driver are not guarded ("crash").
Paginate(outcome, e) ==
  /\ pc = "Paginating"
  /\ IF outcome = "crash"
     THEN /\ pc' = "Raised"
          /\ UNCHANGED <<page, pagenum>>
     ELSE LET r == try_next_page(site, pagenum, e)
          IN /\ pagenum' = r.pagenum
             /\ IF r.advanced
                THEN /\ page' = Bump(page)
                     /\ pc' = "ScanningPage"
                ELSE /\ page' = page
                     /\ pc' = "Done"
  /\ opened' = NoneVal
  /\ UNCHANGED <<site, run, resume, max_pages, seen, total_written,
                 consecutive_empty_pages, items, idx, enriched, out_file, file_exists,
                 buffered, last_scan, completed>>
  /\ UNCHANGED <<tab, det, nav>>

\* the row is skipped without opening anything: resume and k_number in seen
SkipsRow(res, sn, r) == res /\ ListingText(r) \in sn

SkipSeenRow ==
  /\ pc = "ProcessingRow"
  /\ idx <= Len(items)
  /\ SkipsRow(resume, seen, items[idx])
  /\ idx' = idx + 1
  /\ opened' = NoneVal
  /\ UNCHANGED <<site, run, pc, resume, max_pages, seen, page, total_written,
                 consecutive_empty_pages, items, enriched, pagenum, out_file,
                 file_exists, buffered, last_scan, completed>>
  /\ UNCHANGED <<tab, det, nav>>

\* exceptions the loop catches around open_in_new_tab_and_process
Caught == {"TimeoutException", "WebDriverException"}
RowOutcomes == {"ok", "TimeoutException", "WebDriverException", "OtherException"}

\* open_in_new_tab_and_process on the row's detail link
OpenDetail(outcome) ==
  /\ pc = "ProcessingRow"
  /\ idx <= Len(items)
  /\ ~SkipsRow(resume, seen, items[idx])
  /\ CASE outcome = "ok" ->
            /\ Len(out_file) < MaxLines
            /\ enriched' = process_detail_page(items[idx])
            /\ pc' = "Writing"
            /\ idx' = idx
       [] outcome \in Caught ->
            /\ enriched' = enriched
            /\ pc' = pc
            /\ idx' = idx + 1
       [] OTHER ->
            /\ enriched' = enriched
            /\ pc' = "Raised"
            /\ idx' = idx
  /\ opened' = items[idx]
  /\ UNCHANGED <<site, run, resume, max_pages, seen, page, total_written,
                 consecutive_empty_pages, items, pagenum, out_file, file_exists,
                 buffered, last_scan, completed>>
  /\ UNCHANGED <<tab, det, nav>>

\* out_f.write(line): a line that fits the buffer stays in it, a larger one goes
\* to disk at once
WriteRecord(through) ==
  /\ pc = "Writing"
  /\ pc' = "Flushing"
  /\ IF through
     THEN /\ out_file' = AppendRecord(out_file, enriched)
          /\ buffered' = FALSE
          /\ completed' = completed \cup {enriched.k_number}
     ELSE /\ buffered' = TRUE
          /\ UNCHANGED <<out_file, completed>>
  /\ opened' = NoneVal
  /\ UNCHANGED <<site, run, resume, max_pages, seen, page, total_written,
                 consecutive_empty_pages, items, idx, enriched, pagenum, file_exists,
                 last_scan>>
  /\ UNCHANGED <<tab, det, nav>>

\* out_f.flush(), total_written += 1, on to the next row
FlushRecord ==
  /\ pc = "Flushing"
  /\ IF buffered
     THEN /\ out_file' = AppendRecord(out_file, enriched)
          /\ completed' = completed \cup {enriched.k_number}
     ELSE UNCHANGED <<out_file, completed>>
  /\ buffered' = FALSE
  /\ total_written' = total_written + 1
  /\ idx' = idx + 1
  /\ pc' = "ProcessingRow"
  /\ opened' = NoneVal
  /\ UNCHANGED <<site, run, resume, max_pages, seen, page, consecutive_empty_pages,
                 items, enriched, pagenum, file_exists, last_scan>>
  /\ UNCHANGED <<tab, det, nav>>

\* the crawl ends after this page: max_pages > 0 and page >= max_pages
MaxPagesReached(mp, p) == mp > 0 /\ p >= mp

\* After the last row of a page with rows: the max_pages test, page += 1, and
\* back to the top of the loop.
FinishPage ==
  /\ pc = "ProcessingRow"
  /\ idx > Len(items)
  /\ IF MaxPagesReached(max_pages, page)
     THEN /\ pc' = "Done"
          /\ page' = page
     ELSE /\ pc' = "ScanningPage"
          /\ page' = Bump(page)
  /\ opened' = NoneVal
  /\ UNCHANGED <<site, run, resume, max_pages, seen, total_written,
                 consecutive_empty_pages, items, idx, enriched, pagenum, out_file,
                 file_exists, buffered, last_scan, completed>>
  /\ UNCHANGED <<tab, det, nav>>

\* The process is interrupted from outside; its locals are gone with it.
\*   "kill"   the process is gone, what was buffered is lost
\*   "signal" KeyboardInterrupt: the with block closes the file, which flushes it
\*   "cut"    the interrupt arrives inside out_f.write, part of the line is on disk
Interrupt(how) ==
  /\ pc \in InRun
  /\ pc' = "Interrupted"
  /\ CASE how = "cut" ->
            /\ pc = "Writing"
            /\ out_file' = AppendPartial(out_file, enriched)
            /\ UNCHANGED completed
       [] how = "signal" ->
            IF pc = "Flushing" /\ buffered
            THEN /\ out_file' = AppendRecord(out_file, enriched)
                 /\ completed' = completed \cup {enriched.k_number}
            ELSE UNCHANGED <<out_file, completed>>
       [] OTHER -> UNCHANGED <<out_file, completed>>
  /\ buffered' = FALSE
  /\ seen' = {}
  /\ page' = 0
  /\ total_written' = 0
  /\ consecutive_empty_pages' = 0
  /\ items' = <<>>
  /\ idx' = 1
  /\ enriched' = NoRecord
  /\ pagenum' = 0
  /\ last_scan' = 0
  /\ opened' = NoneVal
  /\ UNCHANGED <<site, run, resume, max_pages, file_exists>>
  /\ UNCHANGED <<tab, det, nav>>

Next ==
  \/ \E res \in BOOLEAN, mp \in 0..MaxPagesArg : StartRun(res, mp)
  \/ \E ok \in BOOLEAN : Search(ok)
  \/ \E outcome \in {"ok", "timeout"}, mask \in Masks(MaxRowsPerPage) : ScanPage(outcome, mask)
  \/ \E outcome \in {"ok", "crash"}, e \in PageEnvs(pagenum) : Paginate(outcome, e)
  \/ SkipSeenRow
  \/ \E outcome \in RowOutcomes : OpenDetail(outcome)
  \/ \E through \in BOOLEAN : WriteRecord(through)
  \/ FlushRecord
  \/ FinishPage
  \/ \E how \in {"kill", "signal", "cut"} : Interrupt(how)

Spec == Init /\ [][Next]_vars

\* One run of the program on an output file as an earlier run can leave it:
\* missing, or holding the record of one row of the listing.
RowsOf(s) == UNION {{s[i][k] : k \in DOMAIN s[i]} : i \in DOMAIN s}

LeftFiles(s) == {<<>>} \cup {<<Line(process_detail_page(r), "rec")>> : r \in RowsOf(s)}

InitRun ==
  /\ site \in Sites
  /\ out_file \in LeftFiles(site)
  /\ file_exists = (out_file # <<>>)
  /\ completed = RebuildSeen(out_file)
  /\ run = 0
  /\ pc = "Idle"
  /\ resume = FALSE
  /\ max_pages = 0
  /\ seen = {}
  /\ page = 0
  /\ total_written = 0
  /\ consecutive_empty_pages = 0
  /\ items = <<>>
  /\ idx = 1
  /\ enriched = NoRecord
  /\ pagenum = 0
  /\ buffered = FALSE
  /\ last_scan = 0
  /\ opened = NoneVal
  /\ tab = Off
  /\ det = Off
  /\ nav = Off

NextRun ==
  \/ \E res \in BOOLEAN, mp \in 0..MaxPagesArg : run = 0 /\ StartRun(res, mp)
  \/ \E ok \in BOOLEAN : Search(ok)
  \/ \E outcome \in {"ok", "timeout"}, mask \in Masks(MaxRowsPerPage) : ScanPage(outcome, mask)
  \/ \E outcome \in {"ok", "crash"}, e \in PageEnvs(pagenum) : Paginate(outcome, e)
  \/ SkipSeenRow
  \/ \E outcome \in RowOutcomes : OpenDetail(outcome)
  \/ \E through \in BOOLEAN : WriteRecord(through)
  \/ FlushRecord
  \/ FinishPage
  \/ \E how \in {"kill", "signal", "cut"} : Interrupt(how)

RunSpec == InitRun /\ [][NextRun]_vars

\* The program left to run: no interrupt from outside, every browser and
\* network call returns or fails with an exception the row loop catches, and
\* every enabled step is eventually taken.
NextLive ==
  \/ \E res \in BOOLEAN, mp \in 0..MaxPagesArg : StartRun(res, mp)
  \/ \E ok \in BOOLEAN : Search(ok)
  \/ \E mask \in Masks(MaxRowsPerPage) : ScanPage("ok", mask)
  \/ \E e \in PageEnvs(pagenum) : Paginate("ok", e)
  \/ SkipSeenRow
  \/ \E outcome \in {"ok"} \cup Caught : OpenDetail(outcome)
  \/ \E through \in BOOLEAN : WriteRecord(through)
  \/ FlushRecord
  \/ FinishPage

LiveSpec == Init /\ [][NextLive]_vars /\ WF_vars(NextLive)

\* ------------------------------------------------- the parts taken one by one
\* The crawl's own variables, and the crawl not started: the functions below
\* are walked on their own, called as the row loop and the page loop call them.
locals == <<run, pc, resume, max_pages, seen, page, total_written,
            consecutive_empty_pages, items, idx, enriched, out_file,
            file_exists, buffered, last_scan, opened, completed>>

crawl == <<locals, site, pagenum>>

NotStarted ==
  /\ run = 0
  /\ pc = "Idle"
  /\ resume = FALSE
  /\ max_pages = 0
  /\ seen = {}
  /\ page = 0
  /\ total_written = 0
  /\ consecutive_empty_pages = 0
  /\ items = <<>>
  /\ idx = 1
  /\ enriched = NoRecord
  /\ out_file = <<>>
  /\ file_exists = FALSE
  /\ buffered = FALSE
  /\ last_scan = 0
  /\ opened = NoneVal
  /\ completed = {}

\* no listing is shown
Parked ==
  /\ NotStarted
  /\ site = <<>>
  /\ pagenum = 0

\* ---- open_in_new_tab_and_process, one browser call at a time
\* Window handles are numbers: 0 is the listing window the driver starts in,
\* the tab opened by the n-th call is n. A focus that is no open window is
\* a window that is gone.
MaxCalls == 3

MainWindow == 0

\* no tab was opened by the call
NoTab == 0 - 1

Handles(t) == {MainWindow} \cup t.windows

TabInit ==
  /\ Parked
  /\ tab = [pc |-> "idle", calls |-> 0, windows |-> {}, focus |-> MainWindow,
            main_handle |-> MainWindow, mine |-> NoTab, result |-> NoneVal]
  /\ det = Off
  /\ nav = Off

\* lines 564-565: the current handle is read, window.open is run; the browser
\* opens the tab or blocks it. Reading the handle of a window that is gone raises.
TabOpen(appears) ==
  /\ tab.pc = "idle"
  /\ tab.calls < MaxCalls
  /\ IF tab.focus \in Handles(tab)
       THEN tab' = [tab EXCEPT !.pc = "waiting", !.calls = @ + 1,
                               !.main_handle = tab.focus,
                               !.mine = IF appears THEN tab.calls + 1 ELSE NoTab,
                               !.windows = IF appears THEN @ \cup {tab.calls + 1} ELSE @,
                               !.result = NoneVal]
       ELSE tab' = [tab EXCEPT !.pc = "exit", !.calls = @ + 1, !.mine = NoTab,
                               !.result = "raised"]
  /\ UNCHANGED <<det, nav>>
  /\ UNCHANGED crawl

\* lines 567-570: wait until there are exactly two windows (outside the try),
\* then switch to the one that is not main_handle
TabWait ==
  /\ tab.pc = "waiting"
  /\ IF Cardinality(Handles(tab)) = 2
       THEN tab' = [tab EXCEPT !.pc = "processing",
                               !.focus = CHOOSE h \in Handles(tab) : h # tab.main_handle]
       ELSE tab' = [tab EXCEPT !.pc = "exit", !.result = "raised"]
  /\ UNCHANGED <<det, nav>>
  /\ UNCHANGED crawl

\* lines 571-572: process_fn returns a record or raises
TabProcess(outcome) ==
  /\ tab.pc = "processing"
  /\ tab' = [tab EXCEPT !.pc = "closing", !.result = outcome]
  /\ UNCHANGED <<det, nav>>
  /\ UNCHANGED crawl

\* line 575, in the finally block: driver.close() closes the focused window,
\* or raises with the window still open or already gone; when it raises,
\* line 576 is not run
TabClose(outcome) ==
  /\ tab.pc = "closing"
  /\ CASE outcome = "closed" ->
            tab' = [tab EXCEPT !.pc = "switching", !.windows = @ \ {tab.focus}]
       [] outcome = "raises" ->
            tab' = [tab EXCEPT !.pc = "exit", !.result = "raised"]
       [] outcome = "gone" ->
            tab' = [tab EXCEPT !.pc = "exit", !.result = "raised",
                               !.windows = @ \ {tab.focus}]
  /\ UNCHANGED <<det, nav>>
  /\ UNCHANGED crawl

\* lines 576-577: back to main_handle; the result is returned, or the
\* exception of process_fn goes on to the caller
TabSwitchBack ==
  /\ tab.pc = "switching"
  /\ tab' = [tab EXCEPT !.pc = "exit", !.focus = tab.main_handle,
                        !.result = IF @ = "record" THEN "returned" ELSE "raised"]
  /\ UNCHANGED <<det, nav>>
  /\ UNCHANGED crawl

\* the row loop goes on to its next row (lines 708-715)
TabNextRow ==
  /\ tab.pc = "exit"
  /\ tab' = [tab EXCEPT !.pc = "idle"]
  /\ UNCHANGED <<det, nav>>
  /\ UNCHANGED crawl

TabNext ==
  \/ \E appears \in BOOLEAN : TabOpen(appears)
  \/ TabWait
  \/ \E outcome \in {"record", "raises"} : TabProcess(outcome)
  \/ \E outcome \in {"closed", "raises", "gone"} : TabClose(outcome)
  \/ TabSwitchBack
  \/ TabNextRow

TabSpec == TabInit /\ [][TabNext]_vars

\* ---- a detail page: its links, the PDF fetch, the record
\* A string is the sequence of its pieces; `k in s` is k found as a run of
\* consecutive pieces of s. str.lower() maps each piece to its lower case.
LowerPiece(c) ==
  CASE c = "Decision" -> "decision"
    [] c = "Summary" -> "summary"
    [] c = "Letter" -> "letter"
    [] c = "PDF" -> "pdf"
    [] c = "Application/PDF" -> "application/pdf"
    [] c = "Apology_Objects" -> "apology_objects"
    [] OTHER -> c

lower(str) == [i \in DOMAIN str |-> LowerPiece(str[i])]

\* None where the code holds a string or None: equal to no string of the model
NoneStr == <<NoneVal>>

\* k in str
Contains(k, str) ==
  \E i \in 0..(Len(str) - Len(k)) : \A j \in 1..Len(k) : str[i + j] = k[j]

\* str.endswith(k)
EndsWith(str, k) ==
  /\ Len(k) <= Len(str)
  /\ \A j \in 1..Len(k) : str[Len(str) - Len(k) + j] = k[j]

SUMMARY_KEYWORDS ==
  {<<"summary">>, <<"decision", " ", "summary">>, <<"summary", " ", "(english)">>}

BACKUP_PDF_KEYWORDS ==
  {<<"decision", " ", "letter">>, <<"substantial", " ", "equivalence">>,
   <<"se", " ", "letter">>, <<"clearance">>, <<"letter">>, <<"decision">>,
   <<"determination">>}

\* The anchors a detail page can carry: visible text, href, and whether the
\* element has gone stale by the time it is read.
DecisionSummaryLink ==
  [text |-> <<"Decision", " ", "Summary", ".", "pdf">>, href |-> <<"/", "d1", ".", "pdf">>, stale |-> FALSE]

DecisionLetterLink ==
  [text |-> <<"Decision", " ", "Letter", ".", "pdf">>, href |-> <<"/", "d2", ".", "pdf">>, stale |-> FALSE]

Anchors ==
  { DecisionSummaryLink, DecisionLetterLink,
    [text |-> <<"Decision", " ", "Summary", ".", "pdf">>, href |-> <<"/", "d0", ".", "pdf">>, stale |-> TRUE],
    [text |-> <<"Download">>, href |-> <<"/", "d3", ".", "PDF">>, stale |-> FALSE],
    [text |-> <<"Summary">>, href |-> <<"/", "summary", ".", "html">>, stale |-> FALSE],
    [text |-> <<>>, href |-> <<"/", "k1", "_", "summary", ".", "pdf">>, stale |-> FALSE],
    [text |-> <<"View">>, href |-> <<"/", "cf", "pdf", "/", "clearance">>, stale |-> FALSE],
    [text |-> <<"Summary">>, href |-> <<>>, stale |-> FALSE] }

MaxLinks == 3

DetailPages == SeqsUpTo(Anchors, MaxLinks)

\* lines 529-531
is_pdfish(hl) == EndsWith(hl, <<".", "pdf">>) \/ Contains(<<"pdf">>, hl)

HasKeyword(keywords, str) == \E k \in keywords : Contains(k, str)

\* the list one pass of the loop body appends the anchor's href to (lines
\* 520-547): tried in the order summary, backup, any
Bucket_BackupFirst(a) ==
  LET tl == lower(a.text)
      hl == lower(a.href)
  IN  IF a.stale \/ a.href = <<>> \/ ~is_pdfish(hl) THEN "skip"
      ELSE IF HasKeyword(BACKUP_PDF_KEYWORDS, tl) \/ HasKeyword(BACKUP_PDF_KEYWORDS, hl) THEN "backup"
      ELSE IF HasKeyword(SUMMARY_KEYWORDS, tl) \/ HasKeyword(SUMMARY_KEYWORDS, hl) THEN "summary"
      ELSE "any"

Bucket(a) ==
  LET tl == lower(a.text)
      hl == lower(a.href)
  IN  IF a.stale \/ a.href = <<>> \/ ~is_pdfish(hl) THEN "skip"
      ELSE IF HasKeyword(SUMMARY_KEYWORDS, tl) \/ HasKeyword(SUMMARY_KEYWORDS, hl) THEN "summary"
      ELSE IF HasKeyword(BACKUP_PDF_KEYWORDS, tl) \/ HasKeyword(BACKUP_PDF_KEYWORDS, hl) THEN "backup"
      ELSE "any"

\* the hrefs appended to one list, in document order
RECURSIVE Cand(_, _, _)
Cand(anchors, bucket, i) ==
  IF i > Len(anchors) THEN <<>>
  ELSE IF Bucket(anchors[i]) = bucket
       THEN <<anchors[i].href>> \o Cand(anchors, bucket, i + 1)
       ELSE Cand(anchors, bucket, i + 1)

\* lines 553-555
AnyOrNone_Untyped(cand_any_pdf) ==
  IF cand_any_pdf # <<>>
  THEN [pdf_url |-> cand_any_pdf[1], pdf_type |-> ""]
  ELSE [pdf_url |-> NoneStr, pdf_type |-> ""]

AnyOrNone(cand_any_pdf) ==
  IF cand_any_pdf # <<>>
  THEN [pdf_url |-> cand_any_pdf[1], pdf_type |-> "any"]
  ELSE [pdf_url |-> NoneStr, pdf_type |-> ""]

\* lines 506-555
find_best_pdf_link_on_detail(anchors) ==
  LET cand_summary == Cand(anchors, "summary", 1)
      cand_backup == Cand(anchors, "backup", 1)
      cand_any_pdf == Cand(anchors, "any", 1)
  IN  IF cand_summary # <<>> THEN [pdf_url |-> cand_summary[1], pdf_type |-> "summary"]
      ELSE IF cand_backup # <<>> THEN [pdf_url |-> cand_backup[1], pdf_type |-> "backup"]
      ELSE AnyOrNone(cand_any_pdf)

\* A response of session.get (lines 102-111): the final URL after redirects,
\* the two headers (absent: empty), and the body: no PDF at all, or the text
\* of each page of the PDF.
FinalUrls ==
  { <<"/", "d1", ".", "PDF">>,
    <<"/", "view", ".", "cfm">>,
    <<"/", "Apology_Objects", "/", "abuse", ".", "html">>,
    <<"/", "apology_objects", "/", "d1", ".", "pdf">> }

ContentTypes == { <<>>, <<"text/html">>, <<"Application/PDF", ";", "charset=binary">> }

ContentDispositions == { <<>>, <<"inline">>, <<"attachment; filename=", "K1", ".", "PDF">> }

NotAPdf == <<NoneVal, "html">>

Bodies == { NotAPdf, <<>>, <<"">>, <<"words">>, <<"", "words", "">> }

Responses ==
  [final_url : FinalUrls, ctype : ContentTypes, dispo : ContentDispositions, content : Bodies]

\* session.get raised (timeout, connection reset)
NoResponse ==
  [final_url |-> NoneStr, ctype |-> NoneStr, dispo |-> NoneStr, content |-> NotAPdf]

TRIES == 3

\* lines 106-108
blocked_CaseSensitive(r) == Contains(<<"apology_objects">>, r.final_url)

blocked(r) == Contains(<<"apology_objects">>, lower(r.final_url))

\* lines 110-118
is_pdf_HeadersOnly(r) ==
  \/ Contains(<<"application/pdf">>, lower(r.ctype))
  \/ Contains(<<".", "pdf">>, lower(r.dispo))

is_pdf_AllSignals(r) ==
  /\ EndsWith(lower(r.final_url), <<".", "pdf">>)
  /\ Contains(<<"application/pdf">>, lower(r.ctype))
  /\ Contains(<<".", "pdf">>, lower(r.dispo))

is_pdf(r) ==
  \/ EndsWith(lower(r.final_url), <<".", "pdf">>)
  \/ Contains(<<"application/pdf">>, lower(r.ctype))
  \/ Contains(<<".", "pdf">>, lower(r.dispo))

\* lines 123-127: the page texts joined by newlines, one line a page, then
\* str.strip(): the empty lines at both ends go
RECURSIVE strip(_)
strip(lines) ==
  IF lines = <<>> THEN <<>>
  ELSE IF lines[1] = "" THEN strip(SubSeq(lines, 2, Len(lines)))
  ELSE IF lines[Len(lines)] = "" THEN strip(SubSeq(lines, 1, Len(lines) - 1))
  ELSE lines

\* One pass of the attempt loop (lines 98-141) on what session.get gave:
\* "raise" is an exception caught at line 134, parsed tells whether fitz was
\* handed the body
Attempt(r) ==
  IF r = NoResponse THEN [end |-> "raise", text |-> NoneStr, parsed |-> FALSE]
  ELSE IF blocked(r) THEN [end |-> "return", text |-> NoneStr, parsed |-> FALSE]
  ELSE IF ~is_pdf(r) THEN [end |-> "return", text |-> NoneStr, parsed |-> FALSE]
  ELSE IF r.content = NotAPdf THEN [end |-> "raise", text |-> NoneStr, parsed |-> TRUE]
  ELSE LET plain == strip(r.content)
       IN  IF plain = <<>> THEN [end |-> "return", text |-> NoneStr, parsed |-> TRUE]
           ELSE [end |-> "return", text |-> plain, parsed |-> TRUE]

\* line 97: the loop goes on to the next attempt
NextAttempt_Skip(attempt) == attempt + 2

NextAttempt(attempt) == attempt + 1

\* line 135
LastAttempt(attempt) == attempt >= TRIES

\* the detail page's own address, and urljoin (line 601) of it and an href
DetailUrl == <<"https://portal", "/", "pmn", ".", "cfm">>

urljoin(base, url) ==
  IF url[1] = "/" THEN <<base[1]>> \o url
  ELSE SubSeq(base, 1, 2) \o url

DetInit ==
  /\ Parked
  /\ tab = Off
  /\ nav = Off
  /\ \E anchors \in DetailPages :
       det = [pc |-> "page", anchors |-> anchors, pdf_url |-> NoneStr, pdf_type |-> "",
              summary_link |-> NoneStr, summary_text |-> NoneStr, attempt |-> 0,
              fetches |-> 0, failed |-> 0, response |-> NoResponse, parsed |-> FALSE,
              written |-> 0]

\* line 597
DetPick ==
  /\ det.pc = "page"
  /\ LET best == find_best_pdf_link_on_detail(det.anchors)
     IN  det' = [det EXCEPT !.pc = "picked", !.pdf_url = best.pdf_url,
                            !.pdf_type = best.pdf_type]
  /\ UNCHANGED <<tab, nav>>
  /\ UNCHANGED crawl

\* lines 598-604: with a link the fetch begins at attempt 1, without one
\* both summary fields stay None
DetLink ==
  /\ det.pc = "picked"
  /\ IF det.pdf_url # NoneStr
       THEN det' = [det EXCEPT !.pc = "fetching", !.anchors = <<>>, !.attempt = 1,
                               !.summary_link = urljoin(DetailUrl, det.pdf_url)]
       ELSE det' = [det EXCEPT !.pc = "fetched", !.anchors = <<>>]
  /\ UNCHANGED <<tab, nav>>
  /\ UNCHANGED crawl

\* lines 97-141: one attempt, on what session.get gives this time
DetFetch(r) ==
  /\ det.pc = "fetching"
  /\ LET a == Attempt(r)
         seen_r == [det EXCEPT !.fetches = @ + 1, !.response = r, !.parsed = a.parsed,
                               !.failed = IF r = NoResponse THEN @ + 1 ELSE @]
     IN  IF a.end = "return"
         THEN det' = [seen_r EXCEPT !.pc = "fetched", !.summary_text = a.text]
         ELSE IF LastAttempt(det.attempt)
              THEN det' = [seen_r EXCEPT !.pc = "fetched", !.summary_text = NoneStr]
              ELSE det' = [seen_r EXCEPT !.attempt = NextAttempt(@)]
  /\ UNCHANGED <<tab, nav>>
  /\ UNCHANGED crawl

\* lines 606-611: process_detail_page returns the row's fields with
\* summary_link, summary_text and pdf_type
DetReturn ==
  /\ det.pc = "fetched"
  /\ det' = [det EXCEPT !.pc = "returned"]
  /\ UNCHANGED <<tab, nav>>
  /\ UNCHANGED crawl

\* lines 717-718: the row loop writes the record
DetWrite ==
  /\ det.pc = "returned"
  /\ det' = [det EXCEPT !.pc = "written", !.written = @ + 1]
  /\ UNCHANGED <<tab, nav>>
  /\ UNCHANGED crawl

DetNext ==
  \/ DetPick
  \/ DetLink
  \/ \E r \in Responses \cup {NoResponse} : DetFetch(r)
  \/ DetReturn
  \/ DetWrite

DetailSpec == DetInit /\ [][DetNext]_vars

\* ---- try_next_page, one strategy at a time
\* the offsets a listing can be shown at when try_next_page is called
Offsets == {0} \cup {FIRST_PAGENUM + STEP * k : k \in 0..(MaxSitePages - 1)}

PageInit ==
  /\ NotStarted
  /\ site \in Sites
  /\ pagenum \in Offsets
  /\ tab = Off
  /\ det = Off
  /\ \E e \in PageEnvs(pagenum) :
       nav = [pc |-> "arrow", env |-> e, before_pagenum |-> pagenum,
              before_sig |-> first_row_signature(site, pagenum),
              reached |-> <<>>, advanced |-> FALSE, by |-> NoneVal]

\* lines 397, 430, 457: what is returned once the signature has changed
Accepted_Any(result_count) == result_count >= 0

Accepted(result_count) == result_count > 0

\* One strategy: passed over when its element is missing or its navigation
\* raises (the except of the strategy); after a navigation the signature is
\* read again, and a changed signature ends the call with Accepted(count)
Strategy(i, then) ==
  LET st == Strategies(nav.before_pagenum, nav.env)[i]
      reached == Append(nav.reached, st.name)
      after_sig == first_row_signature(site, st.target)
  IN  IF ~st.avail
      THEN /\ nav' = [nav EXCEPT !.pc = then, !.reached = reached]
           /\ pagenum' = pagenum
      ELSE /\ pagenum' = st.target
           /\ IF after_sig # nav.before_sig
              THEN nav' = [nav EXCEPT !.pc = "done", !.reached = reached, !.by = st.name,
                                      !.advanced = Accepted(count_total_results(site, st.target))]
              ELSE nav' = [nav EXCEPT !.pc = then, !.reached = reached]

\* lines 368-403
NavArrow ==
  /\ nav.pc = "arrow"
  /\ Strategy(1, "link")
  /\ UNCHANGED <<tab, det, site>>
  /\ UNCHANGED locals

\* lines 405-434
NavLink ==
  /\ nav.pc = "link"
  /\ Strategy(2, "url")
  /\ UNCHANGED <<tab, det, site>>
  /\ UNCHANGED locals

\* lines 436-466: after the last strategy False is returned
NavUrl ==
  /\ nav.pc = "url"
  /\ Strategy(3, "done")
  /\ UNCHANGED <<tab, det, site>>
  /\ UNCHANGED locals

PageNext ==
  \/ NavArrow
  \/ NavLink
  \/ NavUrl

PageSpec == PageInit /\ [][PageNext]_vars

\* the walk strategy by strategy and the operator the page loop uses agree
WalkAgrees ==
  nav.pc = "done" =>
     try_next_page(site, nav.before_pagenum, nav.env) =
        [advanced |-> nav.advanced, pagenum |-> pagenum]

\* ---- the URL rebuilt by the third strategy (lines 438-447)
\* A URL is its scheme, host, path and query; the query is the sequence of
\* its key=value pairs as written, values percent-encoded.
MaxParams == 3

Keys == {"PAGENUM", "Panel", "sort"}

RawValues == {"1", "21", "", "SU", "a%20b"}

\* percent-decoding of parse_qs and quote_plus of urlencode, on the values above
unquote(v) == IF v = "a%20b" THEN "a b" ELSE v

quote_plus(v) == IF v = "a b" THEN "a+b" ELSE v

unquote_plus(v) == IF v = "a+b" THEN "a b" ELSE unquote(v)

\* int() and str() on the offsets that occur; int raises on anything else
Numerals == [n \in {1, 11, 21, 31} |-> CASE n = 1 -> "1" [] n = 11 -> "11"
                                         [] n = 21 -> "21" [] n = 31 -> "31"]

IsInt(v) == \E n \in DOMAIN Numerals : Numerals[n] = v

int(v) == CHOOSE n \in DOMAIN Numerals : Numerals[n] = v

str(n) == Numerals[n]

Queries == SeqsUpTo([k : Keys, v : RawValues], MaxParams)

ListingUrls == [scheme : {"https"}, netloc : {"portal"}, path : {"/pmn.cfm"}, query : Queries]

\* parse_qs: key -> list of decoded values, keys in the order they first
\* appear; a pair with a blank value is left out (keep_blank_values=False)
RECURSIVE parse_qs(_)
parse_qs(query) ==
  IF query = <<>> THEN <<>>
  ELSE LET before == parse_qs(SubSeq(query, 1, Len(query) - 1))
           p == query[Len(query)]
           val == unquote_plus(p.v)
       IN  IF p.v = "" THEN before
           ELSE IF \E i \in DOMAIN before : before[i].k = p.k
                THEN [i \in DOMAIN before |->
                        IF before[i].k = p.k
                        THEN [k |-> p.k, vs |-> Append(before[i].vs, val)]
                        ELSE before[i]]
                ELSE Append(before, [k |-> p.k, vs |-> <<val>>])

\* params.get(key, [default])[0]
get_first(params, key, default) ==
  IF \E i \in DOMAIN params : params[i].k = key
  THEN params[CHOOSE i \in DOMAIN params : params[i].k = key].vs[1]
  ELSE default

\* params[key] = [value]: in place when the key is there, at the end otherwise
set_item(params, key, value) ==
  IF \E i \in DOMAIN params : params[i].k = key
  THEN [i \in DOMAIN params |-> IF params[i].k = key THEN [k |-> key, vs |-> <<value>>]
                                 ELSE params[i]]
  ELSE Append(params, [k |-> key, vs |-> <<value>>])

\* urlencode({k: v[0] for k, v in params.items()})
urlencode(params) == [i \in DOMAIN params |-> [k |-> params[i].k, v |-> quote_plus(params[i].vs[1])]]

UrlInit ==
  /\ Parked
  /\ tab = Off
  /\ det = Off
  /\ \E u \in ListingUrls :
       nav = [pc |-> "url", before_url |-> u, new_url |-> u, raised |-> FALSE]

\* lines 438-447: the URL the third strategy navigates to, or the exception
\* of int() on a PAGENUM that is no number
UrlRebuild ==
  /\ nav.pc = "url"
  /\ LET parsed == nav.before_url
         params == parse_qs(parsed.query)
         current == get_first(params, "PAGENUM", "1")
     IN  IF ~IsInt(current)
         THEN nav' = [nav EXCEPT !.pc = "rebuilt", !.raised = TRUE]
         ELSE LET next_pagenum == int(current) + STEP
                  new_query == urlencode(set_item(params, "PAGENUM", str(next_pagenum)))
              IN  nav' = [nav EXCEPT !.pc = "rebuilt",
                                     !.new_url = [scheme |-> parsed.scheme, netloc |-> parsed.netloc,
                                                  path |-> parsed.path, query |-> new_query]]
  /\ UNCHANGED <<tab, det>>
  /\ UNCHANGED crawl

UrlNext == UrlRebuild

UrlSpec == UrlInit /\ [][UrlNext]_vars

\* ---- the page-number link of the second strategy (lines 409-423)
\* The pagination bar is the sequence of the offsets its links lead to; an
\* href is written with the digits of its offset, one piece a digit.
MaxBarLinks == 3

BarOffsets == {1, 11, 21, 110, 111}

Digits(n) ==
  CASE n = 1 -> <<"1">>
    [] n = 11 -> <<"1", "1">>
    [] n = 21 -> <<"2", "1">>
    [] n = 110 -> <<"1", "1", "0">>
    [] n = 111 -> <<"1", "1", "1">>

BarHref(n) == <<"pmn.cfm?start_search=1&", "PAGENUM=">> \o Digits(n) \o <<"&sort=dd">>

PaginationBars == SeqsUpTo(BarOffsets, MaxBarLinks)

\* //a[contains(@href, 'PAGENUM=<next_pagenum>')], in document order
RECURSIVE next_page_links(_, _)
next_page_links(bar, next_pagenum) ==
  IF bar = <<>> THEN <<>>
  ELSE LET rest == next_page_links(SubSeq(bar, 2, Len(bar)), next_pagenum)
       IN  IF Contains(<<"PAGENUM=">> \o Digits(next_pagenum), BarHref(bar[1]))
           THEN <<bar[1]>> \o rest
           ELSE rest

LinkInit ==
  /\ Parked
  /\ tab = Off
  /\ det = Off
  /\ \E bar \in PaginationBars, cur \in {1, 11} :
       nav = [pc |-> "link", bar |-> bar, current_pagenum |-> cur, went |-> 0]

\* lines 411-423: the first matching link is followed (went: the offset
\* of the page the browser is sent to, 0 when no link matched)
LinkFollow ==
  /\ nav.pc = "link"
  /\ LET next_pagenum == nav.current_pagenum + STEP
         links == next_page_links(nav.bar, next_pagenum)
     IN  nav' = [nav EXCEPT !.pc = "followed",
                            !.went = IF links # <<>> THEN links[1] ELSE 0]
  /\ UNCHANGED <<tab, det>>
  /\ UNCHANGED crawl

LinkNext == LinkFollow

LinkSpec == LinkInit /\ [][LinkNext]_vars

\* ---- the identifier read from the detail page body (lines 580-587, 606-611)
\* The body text is a sequence of words; a word is its text together with
\* what the pattern looks at: the characters before its last letter, that
\* letter, and the number of digits that follow it up to the end of the word.
MaxWords == 3

BodyWords ==
  { [text |-> "K000002",  lead |-> "",  letter |-> "K", digits |-> 6],
    [text |-> "K000007",  lead |-> "",  letter |-> "K", digits |-> 6],
    [text |-> "P000009",  lead |-> "",  letter |-> "P", digits |-> 6],
    [text |-> "k000004",  lead |-> "",  letter |-> "k", digits |-> 6],
    [text |-> "K0000021", lead |-> "",  letter |-> "K", digits |-> 7],
    [text |-> "BK000005", lead |-> "B", letter |-> "K", digits |-> 6],
    [text |-> "Device",   lead |-> "Devic", letter |-> "e", digits |-> 0] }

BodyTexts == SeqsUpTo(BodyWords, MaxWords)

\* a row as collect_page_rows returns it (lines 491-499)
ListingItems ==
  [k_number : {"K000001", "Device B"}, device_name : {"Device B"}, applicant : {"ACME"},
   decision_date : {"01/02/2020"}, detail_link : {"pmn.cfm?ID=K000001"}]

\* \bK\d{6}\b on one word
KPattern_AnyLetter(w) == w.lead = "" /\ w.digits = 6

KPattern(w) == w.lead = "" /\ w.letter = "K" /\ w.digits = 6

\* re.search(r"\bK\d{6}\b", body_txt): the first match, or None
RECURSIVE re_search(_)
re_search(body_txt) ==
  IF body_txt = <<>> THEN NoneVal
  ELSE IF KPattern(body_txt[1]) THEN body_txt[1].text
  ELSE re_search(SubSeq(body_txt, 2, Len(body_txt)))

IdInit ==
  /\ Parked
  /\ tab = Off
  /\ nav = Off
  /\ \E it \in ListingItems, body \in BodyTexts :
       det = [pc |-> "body", it |-> it, body_txt |-> body, readable |-> TRUE, record |-> it]

\* lines 606-611: knum overrides the listing's k_number when the scan gave
\* one; find_element raising makes the scan give None (line 586)
IdOverride(readable) ==
  /\ det.pc = "body"
  /\ LET knum == IF readable THEN re_search(det.body_txt) ELSE NoneVal
     IN  det' = [det EXCEPT !.pc = "record", !.readable = readable,
                            !.record = IF knum # NoneVal
                                       THEN [det.it EXCEPT !.k_number = knum]
                                       ELSE det.it]
  /\ UNCHANGED <<tab, nav>>
  /\ UNCHANGED crawl

IdNext == \E readable \in BOOLEAN : IdOverride(readable)

IdSpec == IdInit /\ [][IdNext]_vars

\* ---- the seen set read back from the output file (lines 628-642)
\* A line of an existing file, by what reading it does:
\*   record      a JSON object with a k_number
\*   no_id       a JSON object without one
\*   scalar      JSON that is no object (a number): the `in` test raises
\*   cut         the beginning of a record: json.loads raises
\*   blank       an empty line: json.loads raises
\*   undecodable bytes that are no UTF-8 (a write cut inside a character):
\*               the file iterator raises UnicodeDecodeError
MaxFileLines == 3

FileLines ==
  { [kind |-> "record", k_number |-> "K000001"],
    [kind |-> "record", k_number |-> "K000002"],
    [kind |-> "no_id", k_number |-> NoneVal],
    [kind |-> "scalar", k_number |-> NoneVal],
    [kind |-> "cut", k_number |-> NoneVal],
    [kind |-> "blank", k_number |-> NoneVal],
    [kind |-> "undecodable", k_number |-> NoneVal] }

ExistingFiles == SeqsUpTo(FileLines, MaxFileLines)

SeenInit ==
  /\ Parked
  /\ tab = Off
  /\ det = Off
  /\ \E exists \in BOOLEAN, f \in ExistingFiles :
       /\ ~exists => f = <<>>
       /\ nav = [pc |-> "open", exists |-> exists, file |-> f, i |-> 1, seen |-> {}]

\* line 631 and lines 640-641: a missing file leaves seen empty
SeenOpen ==
  /\ nav.pc = "open"
  /\ nav' = [nav EXCEPT !.pc = IF nav.exists THEN "reading" ELSE "done"]
  /\ UNCHANGED <<tab, det>>
  /\ UNCHANGED crawl

\* lines 632-638, one line: the inner try stands inside the loop body, so
\* what the iterator itself raises is caught only by except
\* FileNotFoundError, which does not match it
SeenLine ==
  /\ nav.pc = "reading"
  /\ nav.i <= Len(nav.file)
  /\ LET line == nav.file[nav.i]
     IN  CASE line.kind = "undecodable" -> nav' = [nav EXCEPT !.pc = "raised"]
           [] line.kind = "record" ->
                nav' = [nav EXCEPT !.i = @ + 1, !.seen = @ \cup {line.k_number}]
           [] OTHER -> nav' = [nav EXCEPT !.i = @ + 1]
  /\ UNCHANGED <<tab, det>>
  /\ UNCHANGED crawl

\* line 639: the file is read through
SeenEnd ==
  /\ nav.pc = "reading"
  /\ nav.i > Len(nav.file)
  /\ nav' = [nav EXCEPT !.pc = "done"]
  /\ UNCHANGED <<tab, det>>
  /\ UNCHANGED crawl

SeenNext ==
  \/ SeenOpen
  \/ SeenLine
  \/ SeenEnd

SeenSpec == SeenInit /\ [][SeenNext]_vars

\* ---- collect_page_rows, one listing row at a time (lines 469-503)
\* A listing row is the K-number text of its first cell and the cell whose
\* element is missing, if any: find_element raises on it.
MaxListingRows == 3

ListingRows ==
  [k_number : {"K000001", "K000002", "K000003"}, missing : {"none", "td[1]/a", "td[4]"}]

ListingTables == SeqsUpTo(ListingRows, MaxListingRows)

\* lines 491-499
ItemOf(row) ==
  [k_number |-> row.k_number, device_name |-> "Device", applicant |-> "ACME",
   decision_date |-> "01/02/2020", detail_link |-> <<"pmn.cfm?ID=", row.k_number>>]

\* line 490: items.append
appended_Front(list, item) == <<item>> \o list

appended(list, item) == Append(list, item)

RowsInit ==
  /\ Parked
  /\ tab = Off
  /\ det = Off
  /\ \E rows \in ListingTables :
       nav = [pc |-> "rows", rows |-> rows, i |-> 1, items |-> <<>>]

\* lines 473-502, one pass of the loop: the row's cells are read inside the
\* try; when one is missing the except goes on to the next row
CollectRow ==
  /\ nav.pc = "rows"
  /\ nav.i <= Len(nav.rows)
  /\ LET row == nav.rows[nav.i]
     IN  IF row.missing = "none"
         THEN nav' = [nav EXCEPT !.i = @ + 1, !.items = appended(@, ItemOf(row))]
         ELSE nav' = [nav EXCEPT !.i = @ + 1]
  /\ UNCHANGED <<tab, det>>
  /\ UNCHANGED crawl

\* line 503
CollectReturn ==
  /\ nav.pc = "rows"
  /\ nav.i > Len(nav.rows)
  /\ nav' = [nav EXCEPT !.pc = "collected"]
  /\ UNCHANGED <<tab, det>>
  /\ UNCHANGED crawl

RowsNext ==
  \/ CollectRow
  \/ CollectReturn

RowsSpec == RowsInit /\ [][RowsNext]_vars

\* ---- the driver of a run: set up, used, shut down (lines 644-744)
\* How the try block of crawl_fda_510k can end: by falling out of the loop,
\* or with an exception, named by where it is raised.
BodyEnds ==
  { [by |-> "return", at |-> "empty page limit"],
    [by |-> "return", at |-> "no next page"],
    [by |-> "return", at |-> "max_pages"],
    [by |-> "raise", at |-> "driver.get"],
    [by |-> "raise", at |-> "wait_for_search_box"],
    [by |-> "raise", at |-> "search submit"],
    [by |-> "raise", at |-> "open out_path"],
    [by |-> "raise", at |-> "collect_page_rows"],
    [by |-> "raise", at |-> "try_next_page"],
    [by |-> "raise", at |-> "row processing"],
    [by |-> "raise", at |-> "write"],
    [by |-> "raise", at |-> "KeyboardInterrupt"] }

NotEnded == [by |-> NoneVal, at |-> NoneVal]

QuitInit ==
  /\ Parked
  /\ tab = Off
  /\ det = Off
  /\ \E res \in BOOLEAN, headless \in BOOLEAN :
       nav = [pc |-> "setup_driver", resume |-> res, headless |-> headless,
              driver |-> "none", quits |-> 0, ended |-> NotEnded, outcome |-> NotEnded]

\* line 644: the driver is made, or setup_driver raises and there is none
SetupDriver(ok) ==
  /\ nav.pc = "setup_driver"
  /\ IF ok
     THEN nav' = [nav EXCEPT !.pc = "try", !.driver = "running"]
     ELSE nav' = [nav EXCEPT !.pc = "exited",
                             !.outcome = [by |-> "raise", at |-> "setup_driver"]]
  /\ UNCHANGED <<tab, det>>
  /\ UNCHANGED crawl

\* lines 648-738: the try block ends
BodyEnd(e) ==
  /\ nav.pc = "try"
  /\ nav' = [nav EXCEPT !.pc = "finally", !.ended = e]
  /\ UNCHANGED <<tab, det>>
  /\ UNCHANGED crawl

\* lines 743-744: what leaves the function after driver.quit() raised
AfterQuit_Replaced(ended, quit) ==
  IF quit = "raises" THEN [by |-> "raise", at |-> "driver.quit"] ELSE ended

AfterQuit(ended, quit) == ended

\* lines 740-744: driver.quit() in the finally block, its exception passed over
Finally(quit) ==
  /\ nav.pc = "finally"
  /\ nav' = [nav EXCEPT !.pc = "exited", !.quits = @ + 1,
                        !.driver = IF quit = "ok" THEN "quit" ELSE "running",
                        !.outcome = AfterQuit(nav.ended, quit)]
  /\ UNCHANGED <<tab, det>>
  /\ UNCHANGED crawl

QuitNext ==
  \/ \E ok \in BOOLEAN : SetupDriver(ok)
  \/ \E e \in BodyEnds : BodyEnd(e)
  \/ \E quit \in {"ok", "raises"} : Finally(quit)

QuitSpec == QuitInit /\ [][QuitNext]_vars

\* ------------------------------------------------------------------ claims
\* the k_numbers of the whole record lines of a file
FileIds(f) == {f[i].k_number : i \in {j \in DOMAIN f : f[j].kind = "rec"}}

NoDuplicateIds(f) ==
  \A i, j \in DOMAIN f :
     (i # j /\ f[i].kind = "rec" /\ f[j].kind = "rec") => f[i].k_number # f[j].k_number

\* the identifier a row's record is written with
RecordId(r) == process_detail_page(r).k_number

\* C1: in a run started with resume on a file left by an earlier run, no row
\* whose record identifier is already in the file has its detail page opened,
\* and at the end of the run the file holds no identifier twice.
C1_ResumeNeverRefetches ==
  (run >= 2 /\ resume) =>
     /\ opened # NoneVal => RecordId(opened) \notin FileIds(out_file)
     /\ pc = "Done" => NoDuplicateIds(out_file)

\* C2: in a run that starts from an empty output file, no two lines appended
\* by the run carry the same k_number.
C2_WrittenOnce == run = 1 => NoDuplicateIds(out_file)

\* C3: whenever the crawl is interrupted the file holds only whole record
\* lines, and the seen set a following resumed run rebuilds is exactly the set
\* of identifiers of the records whose append completed.
C3_CancellationSafe ==
  /\ \A i \in DOMAIN out_file : out_file[i].kind = "rec"
  /\ (pc = "Searching" /\ resume) => seen = completed

\* C4: every run whose search succeeded eventually reaches Done.
C4_Terminates ==
  \A n \in 1..MaxRuns :
     [](run = n /\ pc = "ScanningPage" => <>(run = n /\ pc = "Done"))

\* C5: after the last row of a page with rows (max-pages not reached) the
\* orchestrator enters Paginating, and a page scan follows only the search or
\* a pagination that advanced.
C5_PaginatesAfterRows ==
  /\ [][(pc = "ProcessingRow" /\ idx > Len(items) /\ pc' # "Interrupted"
          /\ ~(max_pages > 0 /\ page >= max_pages)) => pc' = "Paginating"]_vars
  /\ [][(pc' = "ScanningPage" /\ pc # "ScanningPage")
          => pc \in {"Searching", "Paginating"}]_vars

\* a step in which collect_page_rows returned
ScanReturned == pc = "ScanningPage" /\ pc' \notin {"Raised", "Interrupted"}

\* C6: the offset shown at each page scan is strictly greater than the offset
\* shown at the previous scan of the run.
C6_OffsetsIncrease ==
  [][(ScanReturned /\ last_scan # 0) => last_scan' > last_scan]_vars

\* C7: once the search is submitted no failure leaves crawl_fda_510k as an
\* exception.
C7_NothingEscapes == pc # "Raised"

\* C8: a detail page whose processing fails makes the orchestrator skip the
\* row, write nothing and go on with the next row of the page.
C8_RowFailureSkipsRow ==
  [][(opened' # NoneVal /\ pc' # "Writing")
       => (pc' = "ProcessingRow" /\ idx' = idx + 1 /\ out_file' = out_file)]_vars

\* C9: with max-pages = N > 0 no page is scanned while the page counter is
\* greater than N; with N = 0 the page count never ends the crawl.
C9_MaxPagesBoundsScans ==
  /\ (pc = "ScanningPage" /\ max_pages > 0) => page <= max_pages
  /\ (pc = "Done" /\ max_pages = 0)
        => (consecutive_empty_pages >= 3 \/ items = <<>>)

\* C10: a page scan that finds no row adds one to consecutive_empty_pages; at
\* the third in a row the crawl is Done by that very step, the browser left
\* where it was, nothing raised.
C10_ThreeEmptyPagesEnd ==
  [][(ScanReturned /\ items' = <<>>)
       => /\ consecutive_empty_pages' = consecutive_empty_pages + 1
          /\ (consecutive_empty_pages' >= 3
                => (pc' = "Done" /\ pagenum' = pagenum))
          /\ (consecutive_empty_pages' < 3 => pc' = "Paginating")]_vars

C10_Witness == pc = "Done" /\ consecutive_empty_pages = 3 /\ items = <<>>

\* C11: at every exit of open_in_new_tab_and_process the tab the call opened is
\* closed and the focus is on the main listing window
C11_TabClosedFocusBack ==
  tab.pc = "exit" =>
     /\ tab.mine \notin tab.windows
     /\ tab.focus = MainWindow

\* the links of a page that are PDF links: readable, with an href that names a PDF
PdfLink(a) == ~a.stale /\ a.href # <<>> /\ is_pdfish(lower(a.href))

InTier(a, t) ==
  /\ PdfLink(a)
  /\ CASE t = 1 -> HasKeyword(SUMMARY_KEYWORDS, lower(a.text)) \/ HasKeyword(SUMMARY_KEYWORDS, lower(a.href))
       [] t = 2 -> HasKeyword(BACKUP_PDF_KEYWORDS, lower(a.text)) \/ HasKeyword(BACKUP_PDF_KEYWORDS, lower(a.href))
       [] t = 3 -> TRUE

TierName(t) == CASE t = 1 -> "summary" [] t = 2 -> "backup" [] t = 3 -> "any"

FirstOfBestTier(anchors, url, type) ==
  IF \A i \in DOMAIN anchors : ~PdfLink(anchors[i])
  THEN url = NoneStr /\ type = ""
  ELSE LET best == CHOOSE t \in 1..3 :
                     /\ \E i \in DOMAIN anchors : InTier(anchors[i], t)
                     /\ \A u \in 1..(t - 1) : \A i \in DOMAIN anchors : ~InTier(anchors[i], u)
           first == CHOOSE i \in DOMAIN anchors :
                      /\ InTier(anchors[i], best)
                      /\ \A j \in 1..(i - 1) : ~InTier(anchors[j], best)
       IN  url = anchors[first].href /\ type = TierName(best)

\* C12: the link picked on a detail page is the first one, in document order,
\* of the highest tier that has a PDF link (summary keyword, backup keyword,
\* any PDF), with pdf_type naming the tier, and nothing with an empty type
\* when the page has no PDF link; a Decision Summary link and a Decision
\* Letter link, in either order, give the summary link
C12_BestPdfLink ==
  det.pc = "picked" =>
     /\ FirstOfBestTier(det.anchors, det.pdf_url, det.pdf_type)
     /\ det.anchors \in {<<DecisionSummaryLink, DecisionLetterLink>>,
                         <<DecisionLetterLink, DecisionSummaryLink>>}
          => det.pdf_type = "summary" /\ det.pdf_url = DecisionSummaryLink.href

C12_Witness ==
  /\ det.pc = "picked"
  /\ det.anchors = <<DecisionLetterLink, DecisionSummaryLink>>
  /\ det.pdf_type = "summary"

AfterFetch == {"fetched", "returned", "written"}

\* C13: one URL is fetched at most 3 times; when session.get raises every
\* time it is fetched exactly 3 times, the text is None and the record is
\* written with it
C13_ThreeAttempts ==
  /\ det.pc # "off" => det.fetches <= TRIES
  /\ (det.pc \in AfterFetch /\ det.fetches > 0 /\ det.failed = det.fetches) =>
        /\ det.fetches = TRIES
        /\ det.summary_text = NoneStr
        /\ det.pc = "written" => det.written = 1

C13_Witness ==
  /\ det.pc = "written"
  /\ det.failed = TRIES
  /\ det.written = 1
  /\ det.summary_text = NoneStr

BlockedUrl(url) == \E i \in DOMAIN url : LowerPiece(url[i]) = "apology_objects"

Answered == det.pc # "off" /\ det.fetches > 0 /\ det.response # NoResponse

\* C14: once a fetch ends on a blocked final URL, at whichever attempt, the
\* text is None, no further attempt is made, and the record is written
C14_BlockedEndsFetch ==
  (Answered /\ BlockedUrl(det.response.final_url)) =>
     /\ det.pc \in AfterFetch
     /\ det.summary_text = NoneStr
     /\ det.pc = "written" => det.written = 1

C14_Witness ==
  /\ Answered
  /\ BlockedUrl(det.response.final_url)
  /\ det.fetches = 2
  /\ det.pc = "written"

UrlSignal(r) == EndsWith(lower(r.final_url), <<".", "pdf">>)

TypeSignal(r) == Contains(<<"application/pdf">>, lower(r.ctype))

DispositionSignal(r) == Contains(<<".", "pdf">>, lower(r.dispo))

\* C15: a response that is not blocked is handed to the PDF parser exactly
\* when one of the three signals is positive; with none positive the text is
\* None and no further attempt is made
C15_AnySignalAccepts ==
  (Answered /\ ~BlockedUrl(det.response.final_url)) =>
     /\ det.parsed <=> (UrlSignal(det.response) \/ TypeSignal(det.response)
                          \/ DispositionSignal(det.response))
     /\ ~(UrlSignal(det.response) \/ TypeSignal(det.response) \/ DispositionSignal(det.response))
          => det.pc \in AfterFetch /\ det.summary_text = NoneStr

C15_Witness ==
  /\ Answered
  /\ ~BlockedUrl(det.response.final_url)
  /\ ~UrlSignal(det.response)
  /\ ~TypeSignal(det.response)
  /\ DispositionSignal(det.response)
  /\ det.parsed
  /\ det.summary_text # NoneStr

HtmlTypedPdfUrl(r) ==
  /\ UrlSignal(r)
  /\ r.ctype = <<"text/html">>
  /\ ~DispositionSignal(r)

\* C16 as stated: a response whose URL ends in .pdf, with content-type
\* text/html and no PDF filename in content-disposition, is rejected: the
\* body is not parsed and the text is None
C16_HtmlTypedPdfUrlRejected ==
  (Answered /\ HtmlTypedPdfUrl(det.response)) =>
     /\ ~det.parsed
     /\ det.summary_text = NoneStr

\* C16: such a response, unless its URL is blocked, passes validation on the
\* URL signal alone: its body is handed to the parser and the text is the
\* body's text when the body is a PDF with text, None otherwise
C16_HtmlTypedPdfUrlParsed ==
  (Answered /\ HtmlTypedPdfUrl(det.response) /\ ~BlockedUrl(det.response.final_url)) =>
     /\ det.parsed
     /\ IF det.response.content # NotAPdf /\ strip(det.response.content) # <<>>
        THEN det.summary_text = strip(det.response.content)
        ELSE det.summary_text = NoneStr

C16_Witness ==
  /\ Answered
  /\ HtmlTypedPdfUrl(det.response)
  /\ ~BlockedUrl(det.response.final_url)
  /\ det.parsed
  /\ det.summary_text = <<"words">>

\* the last response holds no text a parser can give
Unextractable(r) == r = NoResponse \/ r.content = NotAPdf \/ strip(r.content) = <<>>

C20_ExhaustedAfterAllThree ==
  (nav.pc = "done" /\ ~nav.advanced) => nav.reached = <<"arrow", "link", "url">>

\* the parameters of a query other than PAGENUM, decoded, in order
RECURSIVE OtherParameters(_)
OtherParameters(query) ==
  IF query = <<>> THEN <<>>
  ELSE LET p == query[Len(query)]
           before == OtherParameters(SubSeq(query, 1, Len(query) - 1))
       IN  IF p.k = "PAGENUM" THEN before
           ELSE Append(before, [k |-> p.k, v |-> unquote_plus(p.v)])

PagenumValues(query) == {query[i].v : i \in {j \in DOMAIN query : query[j].k = "PAGENUM"}}

\* the URL carries PAGENUM once, with offset n
HasOffset(url, n) ==
  /\ Cardinality({j \in DOMAIN url.query : url.query[j].k = "PAGENUM"}) = 1
  /\ PagenumValues(url.query) = {Numerals[n]}

\* the rebuilt URL has offset n + 10 and the scheme, host and path of the
\* URL it was built from
OffsetAdvances ==
  \A n \in {1, 21} :
     (nav.pc = "rebuilt" /\ HasOffset(nav.before_url, n)) =>
        /\ ~nav.raised
        /\ HasOffset(nav.new_url, n + STEP)
        /\ nav.new_url.scheme = nav.before_url.scheme
        /\ nav.new_url.netloc = nav.before_url.netloc
        /\ nav.new_url.path = nav.before_url.path

\* C17: the URL rebuilt from a listing URL with PAGENUM = n has PAGENUM =
\* n + 10 and every other query parameter, the scheme, the host and the path
\* of the URL it was built from
C17_NextUrlKeepsTheRest ==
  \A n \in {1, 21} :
     (nav.pc = "rebuilt" /\ HasOffset(nav.before_url, n)) =>
        /\ HasOffset(nav.new_url, n + STEP)
        /\ OtherParameters(nav.new_url.query) = OtherParameters(nav.before_url.query)
        /\ nav.new_url.scheme = nav.before_url.scheme
        /\ nav.new_url.netloc = nav.before_url.netloc
        /\ nav.new_url.path = nav.before_url.path

\* C21: the page-number link the second strategy follows leads to the offset
\* right after the current one, current + 10, never to a later page whose
\* offset begins with the same digits
C21_LinkIsNextPage ==
  (nav.pc = "followed" /\ nav.went # 0) => nav.went = nav.current_pagenum + STEP

\* the listing's fields other than k_number are those of the row
OtherFieldsKept ==
  /\ det.record.device_name = det.it.device_name
  /\ det.record.applicant = det.it.applicant
  /\ det.record.decision_date = det.it.decision_date
  /\ det.record.detail_link = det.it.detail_link

\* a letter followed by six digits
LetterSixDigits(w) == w.lead = "" /\ w.digits = 6

\* the letter K followed by six digits, as a whole word
IsKNumber(w) == w.lead = "" /\ w.letter = "K" /\ w.digits = 6

\* the record's k_number is the first word of the body of the given format
\* when there is one, the listing's value otherwise
IdOf(body, it, Format(_)) ==
  IF \E i \in DOMAIN body : Format(body[i])
  THEN body[CHOOSE i \in DOMAIN body :
              Format(body[i]) /\ \A j \in 1..(i - 1) : ~Format(body[j])].text
  ELSE it.k_number

\* C22 as stated: the record's k_number is the first identifier made of a
\* letter and six digits found in the detail page body, the listing's value
\* when there is none, and the other listing fields are the row's
C22_FirstLetterSixDigits ==
  (det.pc = "record" /\ det.readable) =>
     /\ det.record.k_number = IdOf(det.body_txt, det.it, LetterSixDigits)
     /\ OtherFieldsKept

\* C22: the record's k_number is the first whole word of the detail page
\* body made of the letter K and six digits, the listing's value when there
\* is none or the body cannot be read, and the other listing fields are the row's
C22_FirstKNumber ==
  det.pc = "record" =>
     /\ det.record.k_number = IF det.readable THEN IdOf(det.body_txt, det.it, IsKNumber)
                              ELSE det.it.k_number
     /\ OtherFieldsKept

C22_Witness ==
  /\ det.pc = "record"
  /\ det.readable
  /\ Len(det.body_txt) = 2
  /\ det.body_txt[1].text = "P000009"
  /\ det.body_txt[2].text = "K000002"
  /\ det.it.k_number = "Device B"
  /\ det.record.k_number = "K000002"

\* C23: with resume the seen set is the set of the k_numbers of the file's
\* lines that parse as records with a k_number; no other line makes the
\* start-up raise, and a missing file gives the empty set
C23_SeenIsTheFilesIds ==
  /\ nav.pc # "raised"
  /\ nav.pc = "done" =>
       nav.seen = {nav.file[i].k_number :
                     i \in {j \in DOMAIN nav.file : nav.file[j].kind = "record"}}

\* C24: when a row begins the listing window is the only window, at no time
\* are there more than two, and the window a row is processed in is the tab
\* opened for that row
C24_OneDetailTabPerRow ==
  /\ tab.pc = "idle" => tab.windows = {}
  /\ tab.pc # "off" => Cardinality(Handles(tab)) <= 2
  /\ tab.pc = "processing" => tab.focus = tab.mine

\* C25: every scan that returns rows sets consecutive_empty_pages to 0 and
\* every scan that returns none adds one, nothing else in a run changes it:
\* it counts the empty scans since the last scan with rows, and is never
\* above 3
C25_CountsEmptyScans ==
  /\ [][IF ScanReturned
        THEN consecutive_empty_pages' =
               (IF items' = <<>> THEN consecutive_empty_pages + 1 ELSE 0)
        ELSE (run' = run /\ pc' # "Interrupted")
               => consecutive_empty_pages' = consecutive_empty_pages]_vars
  /\ [](consecutive_empty_pages <= EMPTY_LIMIT)

\* a scan with rows after an empty one: with max_pages = 1 page 2 is
\* reached through an empty page only
C25_Witness ==
  /\ pc = "ProcessingRow"
  /\ max_pages = 1
  /\ page = 2
  /\ items # <<>>
  /\ consecutive_empty_pages = 0

\* the positions of the rows of a table whose cells are all there
WholeRows(rows) == {i \in DOMAIN rows : rows[i].missing = "none"}

\* the j-th of them, in document order
NthWhole(rows, j) ==
  CHOOSE i \in WholeRows(rows) : Cardinality({g \in WholeRows(rows) : g <= i}) = j

\* C26: collect_page_rows returns one item for each row whose cells parse, in
\* document order, whatever rows fail to parse before, between or after
\* them; the scan of the page always runs to its end
C26_WholeRowsInOrder ==
  /\ nav.pc = "rows" => nav.i <= Len(nav.rows) + 1
  /\ nav.pc = "collected" =>
       /\ Len(nav.items) = Cardinality(WholeRows(nav.rows))
       /\ \A j \in DOMAIN nav.items :
            nav.items[j] = ItemOf(nav.rows[NthWhole(nav.rows, j)])

C26_Witness ==
  /\ nav.pc = "collected"
  /\ Len(nav.rows) = 3
  /\ nav.rows[1].missing = "none"
  /\ nav.rows[2].missing = "td[4]"
  /\ nav.rows[3].missing = "none"
  /\ nav.rows[1].k_number # nav.rows[3].k_number
  /\ Len(nav.items) = 2

\* C27: no step of a run removes, shortens or changes a line of the output
\* file, an unterminated last line alone being run on by what is appended;
\* a record that is added is added at the end and is the record of the row
\* just processed; the file, once there, stays
C27_AppendOnly ==
  [][/\ Len(out_file') >= Len(out_file)
     /\ \A i \in DOMAIN out_file :
          \/ out_file'[i] = out_file[i]
          \/ (i = Len(out_file) /\ out_file[i].kind = "open" /\ out_file'[i].kind = "junk")
     /\ Len(out_file') > Len(out_file) =>
          /\ Len(out_file') = Len(out_file) + 1
          /\ out_file'[Len(out_file')].k_number = enriched.k_number
     /\ file_exists => file_exists']_vars

\* the first record a run writes, after the line that was there before it
C27_Witness ==
  /\ pc = "Flushing"
  /\ ~buffered
  /\ total_written = 0
  /\ Len(out_file) = 2
  /\ out_file[2] = Line(enriched, "rec")

\* C28: from a URL without any PAGENUM the rebuilt URL has PAGENUM = 11 and
\* the query is otherwise the same
C28_NoOffsetAddsEleven ==
  (nav.pc = "rebuilt" /\ PagenumValues(nav.before_url.query) = {}) =>
     /\ ~nav.raised
     /\ HasOffset(nav.new_url, FIRST_PAGENUM + STEP)
     /\ OtherParameters(nav.new_url.query) = OtherParameters(nav.before_url.query)

\* without PAGENUM the offset is taken as 1 and PAGENUM = 11 is added
NoOffsetGivesEleven ==
  (nav.pc = "rebuilt" /\ PagenumValues(nav.before_url.query) = {}) =>
     /\ ~nav.raised
     /\ HasOffset(nav.new_url, FIRST_PAGENUM + STEP)

\* C29: a run whose set-up fails ends with the error and leaves the output
\* file as it was: from the call to the failure the file is neither made
\* nor written
C29_SetupFailureLeavesFile ==
  [][pc' \in {"Searching", "Failed"}
       => (out_file' = out_file /\ file_exists' = file_exists)]_vars

C29_Witness ==
  /\ pc = "Failed"
  /\ run = 1
  /\ ~file_exists
  /\ out_file = <<>>

\* C30: once the driver exists, crawl_fda_510k is left only after one call
\* of driver.quit, however the try block ended, and what leaves the function
\* is what the try block ended with, the quit having raised or not
C30_DriverQuitOnEveryExit ==
  /\ (nav.pc = "exited" /\ nav.ended # NotEnded) =>
        /\ nav.quits = 1
        /\ nav.outcome = nav.ended
  /\ (nav.pc \in {"try", "finally"}) => (nav.driver = "running" /\ nav.quits = 0)
  /\ (nav.pc = "exited" /\ nav.ended = NotEnded) => nav.driver = "none"

C30_Witness ==
  /\ nav.pc = "exited"
  /\ nav.ended = [by |-> "raise", at |-> "wait_for_search_box"]
  /\ nav.quits = 1
  /\ nav.driver = "running"
  /\ nav.outcome = nav.ended

====
